---- MODULE Spec2Model ----
(***************************************************************************)
(* A model of the EFI variable access layer of sdboot-oneshot: the UTF-16  *)
(* codec (write.rs / read.rs), the growable-buffer reader (read.rs), the   *)
(* immutability guard (attributes.rs) and the Manager operations           *)
(* (manager.rs), running against an external variable store.               *)
(***************************************************************************)
EXTENDS Integers, Sequences, FiniteSets, TLC

(***************************************************************************)
(* Bounds of the model.                                                    *)
(***************************************************************************)
\* longest text handed to the encoder / to set_oneshot / set_default
MaxLen == 3
\* number of steps the outside world (firmware, other writers) may take,
\* faulty answers of the store included
MaxExt == 1

(***************************************************************************)
(* Texts.  A Rust &str is a sequence of Unicode scalar values; the model   *)
(* keeps four of them: NUL, an ASCII letter, a BMP character whose low     *)
(* byte is zero, and a character outside the BMP (a surrogate pair).       *)
(***************************************************************************)
NUL == 0
Chars == {NUL, 119, 256, 65536}

RECURSIVE SeqsUpTo(_, _)
SeqsUpTo(S, n) ==
    IF n = 0 THEN {<<>>}
    ELSE LET shorter == SeqsUpTo(S, n - 1)
         IN  shorter \cup {Append(t, c) : t \in shorter, c \in S}

Texts == SeqsUpTo(Chars, MaxLen)

HasNul(s) == \E i \in 1..Len(s) : s[i] = NUL

(***************************************************************************)
(* char::encode_utf16: one 16-bit unit for a BMP character, a surrogate    *)
(* pair otherwise.                                                         *)
(***************************************************************************)
encode_utf16_char(c) ==
    IF c < 65536 THEN <<c>>
    ELSE <<55296 + ((c - 65536) \div 1024), 56320 + ((c - 65536) % 1024)>>

RECURSIVE encode_utf16(_)
encode_utf16(s) ==
    IF s = <<>> THEN <<>>
    ELSE encode_utf16_char(Head(s)) \o encode_utf16(Tail(s))

\* u16::to_le_bytes
to_le_bytes(u) == <<u % 256, u \div 256>>

RECURSIVE UnitsToBytes(_)
UnitsToBytes(us) ==
    IF us = <<>> THEN <<>>
    ELSE to_le_bytes(Head(us)) \o UnitsToBytes(Tail(us))

\* ends with a zero byte, whatever the byte before it
EndsWithTwoZeroBytes_lastByte(b) ==
    /\ Len(b) >= 1
    /\ b[Len(b)] = 0

EndsWithTwoZeroBytes(b) ==
    /\ Len(b) >= 2
    /\ b[Len(b) - 1] = 0
    /\ b[Len(b)] = 0

\* write_utf16_string, lines 17-21: one warning for each code unit whose two
\* bytes are zero
RECURSIVE NullWarnings(_)
NullWarnings(value) ==
    IF value = <<>> THEN 0
    ELSE LET bytes == UnitsToBytes(encode_utf16_char(Head(value)))
         IN  Cardinality({i \in 1..(Len(bytes) \div 2) :
                             bytes[2 * i - 1] = 0 /\ bytes[2 * i] = 0})
               + NullWarnings(Tail(value))

\* the encoder without the terminator: the units of the text and nothing else
EncodeBuffer_noTerminator(value) == UnitsToBytes(encode_utf16(value))

(***************************************************************************)
(* write_utf16_string, lines 16-30: the buffer handed to the store.        *)
(***************************************************************************)
EncodeBuffer(value) ==
    LET buffer == UnitsToBytes(encode_utf16(value))
    IN  IF EndsWithTwoZeroBytes(buffer) THEN buffer ELSE buffer \o <<0, 0>>

(***************************************************************************)
(* The reader's side.  divide_up is read.rs:10; the byte view of the u16   *)
(* buffer (array_ext.rs) pairs bytes 2i-1 and 2i into unit i, the buffer   *)
(* being zero-filled beyond the bytes the store wrote.                     *)
(***************************************************************************)
\* the division rounding down
divide_up_floor(dividend, divisor) == dividend \div divisor

divide_up(dividend, divisor) ==
    (dividend \div divisor) + (IF dividend % divisor # 0 THEN 1 ELSE 0)

ByteAt(b, i) == IF i <= Len(b) THEN b[i] ELSE 0

BytesToUnits(b) ==
    [i \in 1..divide_up(Len(b), 2) |-> ByteAt(b, 2 * i - 1) + 256 * ByteAt(b, 2 * i)]

IsHighSurrogate(u) == u >= 55296 /\ u <= 56319
IsLowSurrogate(u) == u >= 56320 /\ u <= 57343

\* String::from_utf16: [ok |-> TRUE, text |-> the characters], or ok = FALSE
\* when a surrogate is unpaired
Utf16Error == [ok |-> FALSE, text |-> <<>>]

RECURSIVE from_utf16(_)
from_utf16(us) ==
    IF us = <<>> THEN [ok |-> TRUE, text |-> <<>>]
    ELSE IF IsHighSurrogate(us[1])
         THEN IF Len(us) >= 2 /\ IsLowSurrogate(us[2])
              THEN LET rest == from_utf16(SubSeq(us, 3, Len(us)))
                       c == 65536 + (us[1] - 55296) * 1024 + (us[2] - 56320)
                   IN  IF rest.ok THEN [ok |-> TRUE, text |-> <<c>> \o rest.text]
                       ELSE Utf16Error
              ELSE Utf16Error
         ELSE IF IsLowSurrogate(us[1]) THEN Utf16Error
         ELSE LET rest == from_utf16(Tail(us))
              IN  IF rest.ok THEN [ok |-> TRUE, text |-> <<us[1]>> \o rest.text]
                  ELSE Utf16Error

\* the decoder dropping every trailing zero unit
RECURSIVE TrimNul_all(_)
TrimNul_all(us) ==
    IF Len(us) >= 1 /\ us[Len(us)] = 0 THEN TrimNul_all(SubSeq(us, 1, Len(us) - 1)) ELSE us

\* the decoder keeping the terminator
TrimNul_keep(us) == us

\* read_utf16_string, lines 82-89: drop one trailing zero unit if present
TrimNul(us) ==
    IF Len(us) >= 1 /\ us[Len(us)] = 0 THEN SubSeq(us, 1, Len(us) - 1) ELSE us

\* read_utf16_string, lines 82-92, applied to the units read_u16_bytes returned
DecodeUnits(us) == from_utf16(TrimNul(us))

(***************************************************************************)
(* read_u16_bytes, one turn of its loop.  buf is the length of the u16     *)
(* buffer offered to the store, ans the store's answer; the outcome is the *)
(* new buffer length and how the loop goes on.                             *)
(***************************************************************************)
INITIAL_BUFFER == 512
MAX_BUFFER == 4194304
\* "The system could not find the environment option that was entered"
ERROR_ENVVAR_NOT_FOUND == 203

is_envvar_not_found(ans) == ans.os = ERROR_ENVVAR_NOT_FOUND

\* an answer of VarReader::read: Ok((length, flags)) with the bytes written into
\* the buffer, or an efivar::Error (os: the raw OS error of VarUnknownError)
Answer(kind, data, length, attrs, os) ==
    [kind |-> kind, data |-> data, length |-> length, attrs |-> attrs, os |-> os]

\* the reader treating "not found" as any other store error
ReadStep_notFoundIsError(plat, buf, ans) ==
    CASE ans.kind = "Ok" ->
            [out |-> "ok", buf |-> divide_up(ans.length, 2)]
      [] ans.kind = "BufferTooSmall" ->
            IF buf >= MAX_BUFFER
            THEN [out |-> "exceeded", buf |-> buf]
            ELSE [out |-> "retry", buf |-> buf * 2]
      [] OTHER ->
            [out |-> "err", buf |-> buf]

\* the reader refusing the last doubling: it gives up when the doubled buffer
\* would only reach the ceiling
ReadStep_earlyCeiling(plat, buf, ans) ==
    CASE ans.kind = "Ok" ->
            [out |-> "ok", buf |-> divide_up(ans.length, 2)]
      [] ans.kind = "VarNotFound" ->
            [out |-> "none", buf |-> buf]
      [] ans.kind = "VarUnknownError" /\ plat = "windows" /\ is_envvar_not_found(ans) ->
            [out |-> "none", buf |-> buf]
      [] ans.kind = "BufferTooSmall" ->
            IF buf * 2 >= MAX_BUFFER
            THEN [out |-> "exceeded", buf |-> buf]
            ELSE [out |-> "retry", buf |-> buf * 2]
      [] OTHER ->
            [out |-> "err", buf |-> buf]

\* the reader allowing one doubling beyond the ceiling
ReadStep_lateCeiling(plat, buf, ans) ==
    CASE ans.kind = "Ok" ->
            [out |-> "ok", buf |-> divide_up(ans.length, 2)]
      [] ans.kind = "VarNotFound" ->
            [out |-> "none", buf |-> buf]
      [] ans.kind = "VarUnknownError" /\ plat = "windows" /\ is_envvar_not_found(ans) ->
            [out |-> "none", buf |-> buf]
      [] ans.kind = "BufferTooSmall" ->
            IF buf > MAX_BUFFER
            THEN [out |-> "exceeded", buf |-> buf]
            ELSE [out |-> "retry", buf |-> buf * 2]
      [] OTHER ->
            [out |-> "err", buf |-> buf]

\* the reader asking again after an error of the store
ReadStep_retryOnError(plat, buf, ans) ==
    CASE ans.kind = "Ok" ->
            [out |-> "ok", buf |-> divide_up(ans.length, 2)]
      [] ans.kind = "VarNotFound" ->
            [out |-> "none", buf |-> buf]
      [] ans.kind = "VarUnknownError" /\ plat = "windows" /\ is_envvar_not_found(ans) ->
            [out |-> "none", buf |-> buf]
      [] ans.kind = "BufferTooSmall" ->
            IF buf >= MAX_BUFFER
            THEN [out |-> "exceeded", buf |-> buf]
            ELSE [out |-> "retry", buf |-> buf * 2]
      [] OTHER ->
            [out |-> "retry", buf |-> buf]

\* the reader growing its buffer by the initial size instead of doubling it
ReadStep_growLinear(plat, buf, ans) ==
    CASE ans.kind = "Ok" ->
            [out |-> "ok", buf |-> divide_up(ans.length, 2)]
      [] ans.kind = "VarNotFound" ->
            [out |-> "none", buf |-> buf]
      [] ans.kind = "VarUnknownError" /\ plat = "windows" /\ is_envvar_not_found(ans) ->
            [out |-> "none", buf |-> buf]
      [] ans.kind = "BufferTooSmall" ->
            IF buf >= MAX_BUFFER
            THEN [out |-> "exceeded", buf |-> buf]
            ELSE [out |-> "retry", buf |-> buf + INITIAL_BUFFER]
      [] OTHER ->
            [out |-> "err", buf |-> buf]

ReadStep(plat, buf, ans) ==
    CASE ans.kind = "Ok" ->
            [out |-> "ok", buf |-> divide_up(ans.length, 2)]
      [] ans.kind = "VarNotFound" ->
            [out |-> "none", buf |-> buf]
      [] ans.kind = "VarUnknownError" /\ plat = "windows" /\ is_envvar_not_found(ans) ->
            [out |-> "none", buf |-> buf]
      [] ans.kind = "BufferTooSmall" ->
            IF buf >= MAX_BUFFER
            THEN [out |-> "exceeded", buf |-> buf]
            ELSE [out |-> "retry", buf |-> buf * 2]
      [] OTHER ->
            [out |-> "err", buf |-> buf]

(***************************************************************************)
(* The variable store (efivar::VarManager) and, on Linux, the efivarfs     *)
(* file behind each variable are outside the program: the model keeps, per *)
(* variable, whether it exists, its EFI attributes, its payload bytes and  *)
(* the inode flag word of its file.                                        *)
(***************************************************************************)
ONESHOT_ENTRY_SHORT == "LoaderEntryOneShot"
DEFAULT_ENTRY_SHORT == "LoaderEntryDefault"
LOADER_ENTRY_SELECTED == "LoaderEntrySelected"
LOADER_ENTRY_DEFAULT == "LoaderEntryDefault"
LOADER_ENTRIES_SHORT == "LoaderEntries"

VarNames ==
    {ONESHOT_ENTRY_SHORT, DEFAULT_ENTRY_SHORT, LOADER_ENTRY_SELECTED, LOADER_ENTRIES_SHORT}

\* the flags without runtime access
entry_flags_noRuntime == {"NON_VOLATILE", "BOOTSERVICE_ACCESS"}

\* manager.rs:68, the flags written with every value and expected on the oneshot
entry_flags == {"NON_VOLATILE", "BOOTSERVICE_ACCESS", "RUNTIME_ACCESS"}

\* attribute sets a variable written by someone else may carry
OtherFlags == {{"NON_VOLATILE", "BOOTSERVICE_ACCESS"}}

\* Inode flag "Immutable file"
FS_IMMUTABLE_FL == 16
\* inode flag words of a file the boot loader left: one flag other than the
\* immutable one is set, the immutable one may be
IFlagWords == {128, FS_IMMUTABLE_FL + 128}

\* original_attr & FS_IMMUTABLE_FL
BitAnd(word, bit) == IF (word \div bit) % 2 = 1 THEN bit ELSE 0
\* a new word with every bit cleared, not only the one asked for
BitXor_clearWord(word, bit) == 0
\* original_attr ^ FS_IMMUTABLE_FL
BitXor(word, bit) == IF (word \div bit) % 2 = 1 THEN word - bit ELSE word + bit

NoVar == [present |-> FALSE, attrs |-> {}, data |-> <<>>, iflags |-> 0]
Var(attrs, data, iflags) ==
    [present |-> TRUE, attrs |-> attrs, data |-> data, iflags |-> iflags]

Immutable(f) == f.present /\ BitAnd(f.iflags, FS_IMMUTABLE_FL) # 0

\* payloads another writer may leave in a variable: a terminated value and
\* an unpaired surrogate
ExtPayloads == {<<0, 1, 0, 0>>, <<0, 216>>}

VARIABLES
    platform,   \* "linux" or "windows": which cfg(target_os) branches are built
    store,      \* the variable store, by variable name
    ext,        \* steps taken by the outside world
    ops,        \* Manager operations called so far
    pc,         \* position of the running operation
    op,         \* the running operation
    arg,        \* its text argument
    buf,        \* read_u16_bytes: length of the u16 buffer
    attempts,   \* read_u16_bytes: reads issued to the store
    guard,      \* the Guard held by the running operation
    result,     \* what the operation returned
    payload,    \* the buffer last handed to the store's write
    view,       \* U16ArrayExt: a u16 buffer and its byte view
    iter,       \* SplitPosition: the iterator's fields
    chunks,     \* SplitPosition: the items yielded so far
    size,       \* payload size of the variable read in the reader's own specification
    opWrites,   \* store writes issued by the running operation
    setReqs,    \* FS_IOC_SETFLAGS requests issued by the running operation
    pre,        \* the target variable when the operation was called
    acq,        \* the target's file when the guard was acquired
    lastAns,    \* the store's answer to the latest read
    injected,   \* the store answered a read with something the variable does not explain
    lastSet,    \* the value of the last successful set_oneshot still in the store
    offers,     \* read_u16_bytes: the buffer lengths offered to the store, in order
    fsCalls,    \* remove_oneshot: the file system calls made and what they reported
    removed,    \* the last remove_oneshot succeeded and nobody has set the variable since
    warnings    \* "Intermediate null byte" warnings logged by the running operation

vars == <<platform, store, ext, ops, pc, op, arg, buf, attempts, guard, result,
          payload, size, opWrites, setReqs, pre, acq, lastAns, injected,
          lastSet, offers, fsCalls, removed, warnings, view, iter, chunks>>

\* what an operation returns.  text: the String of a getter; len: the length of
\* the u16 buffer behind it; flags: the VariableFlags read_u16_bytes returns
\* with its buffer; list: the Vec<String> of entries()
Outcome(kind, text, err, len, flags, list) ==
    [kind |-> kind, text |-> text, err |-> err, len |-> len, flags |-> flags,
     list |-> list]
Pending == Outcome("Pending", <<>>, "", 0, {}, <<>>)
OkNone == Outcome("OkNone", <<>>, "", 0, {}, <<>>)
OkSome(t, n) == Outcome("OkSome", t, "", n, {}, <<>>)
OkBytes(n, flags) == Outcome("OkSome", <<>>, "", n, flags, <<>>)
OkList(l, n) == Outcome("OkList", <<>>, "", n, {}, l)
OkUnit == Outcome("OkUnit", <<>>, "", 0, {}, <<>>)
Err(e) == Outcome("Err", <<>>, e, 0, {}, <<>>)

\* held: the Guard is alive; taken: make_mutable returned one to this operation;
\* attr: the captured flag word; fileCur: the descriptor it keeps still refers
\* to the file at the path
NoGuard == [held |-> FALSE, taken |-> FALSE, attr |-> 0, fileCur |-> FALSE]
NotAcquired == [done |-> FALSE, file |-> NoVar, ext |-> 0]
NoAnswer == Answer("none", <<>>, 0, {}, 0)
NoView == [endian |-> "little", stored |-> <<>>, units |-> <<>>, bytes |-> <<>>]
NoIter == [last_position |-> 0, line |-> <<>>]
NoLastSet == [valid |-> FALSE, text |-> <<>>, fromAbsent |-> FALSE]

(***************************************************************************)
(* What the getters make of the reader's outcome.                          *)
(***************************************************************************)
\* get_oneshot without its comparison of the flags
GetterResult_noFlagCheck(o, ans) ==
    LET units == BytesToUnits(ans.data)
        value == DecodeUnits(units)
    IN  IF ~value.ok THEN Err("NonUtf16") ELSE OkSome(value.text, Len(units))

\* read_utf16_string (read.rs:74) on a successful read, then the caller's part:
\* get_string (manager.rs:106) drops the flags, get_oneshot (manager.rs:125)
\* compares them with entry_flags()
GetterResult(o, ans) ==
    LET units == BytesToUnits(ans.data)
        value == DecodeUnits(units)
    IN  IF ~value.ok THEN Err("NonUtf16")
        ELSE IF o = "get_oneshot" /\ ans.attrs # entry_flags
             THEN Err("AttributeMismatch")
             ELSE OkSome(value.text, Len(units))

(***************************************************************************)
(* Manager::entries, manager.rs:220-236, on the units read_u16_bytes gave.  *)
(***************************************************************************)
\* slice::split(|&unit| unit == 0): the runs between zero units, empty runs
\* included; a slice ending with a zero unit ends with an empty run
RECURSIVE SplitZero(_)
SplitZero(us) ==
    IF \E i \in 1..Len(us) : us[i] = 0
    THEN LET i == CHOOSE j \in 1..Len(us) :
                      us[j] = 0 /\ \A k \in 1..(j - 1) : us[k] # 0
         IN  <<SubSeq(us, 1, i - 1)>> \o SplitZero(SubSeq(us, i + 1, Len(us)))
    ELSE <<us>>

\* a scan that passes over empty segments instead of stopping at the first
RECURSIVE TakeWhileNonEmpty_skipEmpty(_)
TakeWhileNonEmpty_skipEmpty(segs) ==
    IF segs = <<>> THEN <<>>
    ELSE IF Head(segs) = <<>> THEN TakeWhileNonEmpty_skipEmpty(Tail(segs))
    ELSE <<Head(segs)>> \o TakeWhileNonEmpty_skipEmpty(Tail(segs))

\* .take_while(|entry| !entry.is_empty())
RECURSIVE TakeWhileNonEmpty(_)
TakeWhileNonEmpty(segs) ==
    IF segs = <<>> \/ Head(segs) = <<>> THEN <<>>
    ELSE <<Head(segs)>> \o TakeWhileNonEmpty(Tail(segs))

\* a listing that ends at the first segment that is not valid UTF-16
RECURSIVE FilterValid_stopAtInvalid(_)
FilterValid_stopAtInvalid(segs) ==
    IF segs = <<>> THEN <<>>
    ELSE LET value == from_utf16(Head(segs))
         IN  IF value.ok THEN <<value.text>> \o FilterValid_stopAtInvalid(Tail(segs))
             ELSE <<>>

\* .filter_map(|entry| match String::from_utf16(entry) { Ok(value) =>
\* Some(value), Err(_) => { log::warn!(..); None } })
RECURSIVE FilterValid(_)
FilterValid(segs) ==
    IF segs = <<>> THEN <<>>
    ELSE LET value == from_utf16(Head(segs))
         IN  IF value.ok THEN <<value.text>> \o FilterValid(Tail(segs))
             ELSE FilterValid(Tail(segs))

EntriesOf(us) == FilterValid(TakeWhileNonEmpty(SplitZero(us)))

\* the value an operation returns once read_u16_bytes left its loop with `out`
\* entries() taking a variable that is not set for an empty list
Finish_entriesAbsentIsEmpty(o, out, newbuf, ans) ==
    CASE out = "exceeded" -> Err("SizeExceeded")
      [] out = "err" -> Err("Store")
      [] out = "none" -> IF o = "entries" THEN OkList(<<>>, 0) ELSE OkNone
      [] out = "ok" -> IF o = "read_u16_bytes"
                       THEN OkBytes(newbuf, ans.attrs)
                       ELSE IF o = "entries"
                       THEN OkList(EntriesOf(BytesToUnits(ans.data)), newbuf)
                       ELSE GetterResult(o, ans)

Finish(o, out, newbuf, ans) ==
    CASE out = "exceeded" -> Err("SizeExceeded")
      [] out = "err" -> Err("Store")
      [] out = "none" -> IF o = "entries" THEN Err("NotSet") ELSE OkNone
      [] out = "ok" -> IF o = "read_u16_bytes"
                       THEN OkBytes(newbuf, ans.attrs)
                       ELSE IF o = "entries"
                       THEN OkList(EntriesOf(BytesToUnits(ans.data)), newbuf)
                       ELSE GetterResult(o, ans)

Target(o) ==
    CASE o = "get_oneshot" -> ONESHOT_ENTRY_SHORT
      [] o = "set_oneshot" -> ONESHOT_ENTRY_SHORT
      [] o = "get_default_entry" -> LOADER_ENTRY_DEFAULT
      [] o = "set_default" -> DEFAULT_ENTRY_SHORT
      [] o = "get_selected_entry" -> LOADER_ENTRY_SELECTED
      [] o = "entries" -> LOADER_ENTRIES_SHORT
      [] o = "remove_oneshot" -> ONESHOT_ENTRY_SHORT
      [] OTHER -> ONESHOT_ENTRY_SHORT

(***************************************************************************)
(* The immutability guard, attributes.rs.                                  *)
(***************************************************************************)
\* make_mutable handing out a guard without having cleared the bit
make_mutable_noClear(f, fault) ==
    IF ~f.present \/ fault = "open"
    THEN [res |-> "Err", err |-> "GuardOpen", guard |-> NoGuard, iflags |-> f.iflags, reqs |-> <<>>]
    ELSE IF fault = "getflags"
    THEN [res |-> "Err", err |-> "GuardGetFlags", guard |-> NoGuard, iflags |-> f.iflags, reqs |-> <<>>]
    ELSE IF BitAnd(f.iflags, FS_IMMUTABLE_FL) = 0
    THEN [res |-> "None", err |-> "", guard |-> NoGuard, iflags |-> f.iflags, reqs |-> <<>>]
    ELSE [res |-> "Some", err |-> "",
          guard |-> [held |-> TRUE, taken |-> TRUE, attr |-> f.iflags, fileCur |-> TRUE],
          iflags |-> f.iflags, reqs |-> <<>>]

\* make_mutable going on to the write when the bit could not be cleared
make_mutable_ignoreSetFail(f, fault) ==
    IF ~f.present \/ fault = "open"
    THEN [res |-> "Err", err |-> "GuardOpen", guard |-> NoGuard, iflags |-> f.iflags, reqs |-> <<>>]
    ELSE IF fault = "getflags"
    THEN [res |-> "Err", err |-> "GuardGetFlags", guard |-> NoGuard, iflags |-> f.iflags, reqs |-> <<>>]
    ELSE IF BitAnd(f.iflags, FS_IMMUTABLE_FL) = 0
    THEN [res |-> "None", err |-> "", guard |-> NoGuard, iflags |-> f.iflags, reqs |-> <<>>]
    ELSE LET original_attr == f.iflags
             new_attr == BitXor(original_attr, FS_IMMUTABLE_FL)
         IN  IF fault = "setflags"
             THEN [res |-> "None", err |-> "", guard |-> NoGuard,
                   iflags |-> f.iflags, reqs |-> <<[attr |-> new_attr, ok |-> FALSE]>>]
             ELSE [res |-> "Some", err |-> "",
                   guard |-> [held |-> TRUE, taken |-> TRUE, attr |-> original_attr, fileCur |-> TRUE],
                   iflags |-> new_attr, reqs |-> <<[attr |-> new_attr, ok |-> TRUE]>>]

\* make_mutable testing the whole flag word instead of the immutable bit
make_mutable_zeroCheck(f, fault) ==
    IF ~f.present \/ fault = "open"
    THEN [res |-> "Err", err |-> "GuardOpen", guard |-> NoGuard, iflags |-> f.iflags, reqs |-> <<>>]
    ELSE IF fault = "getflags"
    THEN [res |-> "Err", err |-> "GuardGetFlags", guard |-> NoGuard, iflags |-> f.iflags, reqs |-> <<>>]
    ELSE IF f.iflags = 0
    THEN [res |-> "None", err |-> "", guard |-> NoGuard, iflags |-> f.iflags, reqs |-> <<>>]
    ELSE LET original_attr == f.iflags
             new_attr == BitXor(original_attr, FS_IMMUTABLE_FL)
         IN  IF fault = "setflags"
             THEN [res |-> "Err", err |-> "GuardSetFlags", guard |-> NoGuard,
                   iflags |-> f.iflags, reqs |-> <<[attr |-> new_attr, ok |-> FALSE]>>]
             ELSE [res |-> "Some", err |-> "",
                   guard |-> [held |-> TRUE, taken |-> TRUE, attr |-> original_attr, fileCur |-> TRUE],
                   iflags |-> new_attr, reqs |-> <<[attr |-> new_attr, ok |-> TRUE]>>]

\* make_mutable (attributes.rs:110) on the file f; fault names the system call
\* that fails, if any.  The outcome: an error, Ok(None), or Ok(Some(Guard))
\* together with the flag word the file is left with.
make_mutable(f, fault) ==
    IF ~f.present \/ fault = "open"
    THEN [res |-> "Err", err |-> "GuardOpen", guard |-> NoGuard, iflags |-> f.iflags, reqs |-> <<>>]
    ELSE IF fault = "getflags"
    THEN [res |-> "Err", err |-> "GuardGetFlags", guard |-> NoGuard, iflags |-> f.iflags, reqs |-> <<>>]
    ELSE IF BitAnd(f.iflags, FS_IMMUTABLE_FL) = 0
    THEN [res |-> "None", err |-> "", guard |-> NoGuard, iflags |-> f.iflags, reqs |-> <<>>]
    ELSE LET original_attr == f.iflags
             new_attr == BitXor(original_attr, FS_IMMUTABLE_FL)
         IN  IF fault = "setflags"
             THEN [res |-> "Err", err |-> "GuardSetFlags", guard |-> NoGuard,
                   iflags |-> f.iflags, reqs |-> <<[attr |-> new_attr, ok |-> FALSE]>>]
             ELSE [res |-> "Some", err |-> "",
                   guard |-> [held |-> TRUE, taken |-> TRUE, attr |-> original_attr, fileCur |-> TRUE],
                   iflags |-> new_attr, reqs |-> <<[attr |-> new_attr, ok |-> TRUE]>>]

\* a release that leaves the file as the acquisition left it
DropGuard_noRestore(g, f, ok) == f

\* impl Drop for Guard (attributes.rs:86): FS_IOC_SETFLAGS with the captured word
\* on the descriptor opened at acquisition.  f is the file now at the path; the
\* request reaches it only if it is still the file the descriptor refers to.
DropGuard(g, f, ok) ==
    IF ok /\ f.present /\ g.fileCur THEN [f EXCEPT !.iflags = g.attr] ELSE f

\* a release whose failure becomes the operation's error
DropResult_escalate(res, ok) == IF ok THEN res ELSE Err("Restore")

\* impl Drop for Guard (attributes.rs:90-97): a failed FS_IOC_SETFLAGS is
\* logged with log::warn!, drop returns nothing; the enclosing function's
\* result res is what it was before the guard was dropped
DropResult(res, ok) == res

\* FileAttributes::set_immutable(value) on the open file f: the immutable bit
\* of its flag word is set or cleared, the other bits kept; fault: the request
\* fails and the word stays
set_immutable(f, value, fault) ==
    IF fault THEN [res |-> "Err", iflags |-> f.iflags]
    ELSE [res |-> "Ok",
          iflags |-> IF value
                     THEN f.iflags - BitAnd(f.iflags, FS_IMMUTABLE_FL) + FS_IMMUTABLE_FL
                     ELSE f.iflags - BitAnd(f.iflags, FS_IMMUTABLE_FL)]

\* a deletion that reports a file already gone as a failure
remove_file_notFoundIsError(f, fault) ==
    IF fault \/ Immutable(f) \/ ~f.present
    THEN [res |-> IF f.present \/ fault THEN "Err" ELSE "NotFound",
          result |-> Err("RemoveFile"), file |-> f]
    ELSE [res |-> "Ok", result |-> OkUnit, file |-> NoVar]

\* a failed deletion that puts the immutable bit back on the file
remove_file_restoreBit(f, fault) ==
    IF fault
    THEN [res |-> "Err", result |-> Err("RemoveFile"),
          file |-> IF f.present
                   THEN [f EXCEPT !.iflags = @ - BitAnd(@, FS_IMMUTABLE_FL) + FS_IMMUTABLE_FL]
                   ELSE f]
    ELSE IF Immutable(f)
    THEN [res |-> "Denied", result |-> Err("RemoveFile"), file |-> f]
    ELSE IF f.present
    THEN [res |-> "Ok", result |-> OkUnit, file |-> NoVar]
    ELSE [res |-> "NotFound", result |-> OkUnit, file |-> f]

\* std::fs::remove_file(ONESHOT_PATH) on the file f now at the path and the
\* match on its result (manager.rs:194-202).  The unlink of an immutable file
\* is refused ("Denied"); fault: it fails for another reason ("Err").
remove_file(f, fault) ==
    IF fault
    THEN [res |-> "Err", result |-> Err("RemoveFile"), file |-> f]
    ELSE IF Immutable(f)
    THEN [res |-> "Denied", result |-> Err("RemoveFile"), file |-> f]
    ELSE IF f.present
    THEN [res |-> "Ok", result |-> OkUnit, file |-> NoVar]
    ELSE [res |-> "NotFound", result |-> OkUnit, file |-> f]

(***************************************************************************)
(* The Manager against the store.                                          *)
(***************************************************************************)
\* longest text given to set_oneshot / set_default
MaxArg == 1
\* Manager operations in one run
MaxOps == 2

\* the texts given to set_oneshot / set_default: letters, and a lone NUL
ArgTexts == SeqsUpTo({119}, MaxArg) \cup {<<NUL>>}

\* the state a variable is in before the program runs: not set, or set by
\* the boot loader; on Linux its file has some inode flags
InitVar(plat) ==
    {NoVar} \cup {Var(entry_flags, <<119, 0, 0, 0>>, w) :
                    w \in IF plat = "linux" THEN IFlagWords ELSE {0}}

\* the variables start alike: an operation works on one of them only
Init ==
    /\ platform \in {"linux", "windows"}
    /\ \E v \in InitVar(platform) : store = [n \in VarNames |-> v]
    /\ ext = 0
    /\ ops = 0
    /\ pc = "idle"
    /\ op = "none"
    /\ arg = <<>>
    /\ buf = INITIAL_BUFFER
    /\ attempts = 0
    /\ guard = NoGuard
    /\ result = Pending
    /\ payload = <<>>
    /\ size = 0
    /\ opWrites = <<>>
    /\ setReqs = <<>>
    /\ pre = NoVar
    /\ acq = NotAcquired
    /\ lastAns = NoAnswer
    /\ injected = FALSE
    /\ lastSet = NoLastSet
    /\ offers = <<>>
    /\ fsCalls = <<>>
    /\ removed = FALSE
    /\ warnings = 0
    /\ view = NoView
    /\ iter = NoIter
    /\ chunks = <<>>

\* entering an operation: its locals are fresh
Call(o, v, first) ==
    /\ pc = "idle"
    /\ ops < MaxOps
    /\ ops' = ops + 1
    /\ op' = o
    /\ arg' = v
    /\ pc' = first
    /\ buf' = INITIAL_BUFFER
    /\ attempts' = 0
    /\ guard' = NoGuard
    /\ result' = Pending
    /\ opWrites' = <<>>
    /\ setReqs' = <<>>
    /\ pre' = store[Target(o)]
    /\ acq' = NotAcquired
    /\ lastAns' = NoAnswer
    /\ injected' = FALSE
    /\ offers' = <<>>
    /\ fsCalls' = <<>>
    /\ warnings' = 0
    /\ UNCHANGED <<view, iter, chunks, removed, platform, store, ext, payload, size, lastSet>>

get_selected_entry == Call("get_selected_entry", <<>>, "read")

get_default_entry == Call("get_default_entry", <<>>, "read")

get_oneshot == Call("get_oneshot", <<>>, "read")

entries == Call("entries", <<>>, "read")

\* #[cfg(target_os = "linux")] let _guard = ...: only the Linux build acquires
set_oneshot ==
    \E v \in ArgTexts :
        Call("set_oneshot", v, IF platform = "linux" THEN "acquire" ELSE "write")

set_default ==
    \E v \in ArgTexts :
        Call("set_default", v, IF platform = "linux" THEN "acquire" ELSE "write")

\* the Linux build opens and deletes the file; the Windows build is
\* self.set_oneshot("")
remove_oneshot ==
    Call("remove_oneshot", <<>>, IF platform = "linux" THEN "remove_open" ELSE "write")

\* what the store may answer to a read of variable n: the variable as it is,
\* or an error; BufferTooSmall and the other errors are the store's to give
\* (the variable may be changed by the firmware between two attempts)
HonestAnswer(f) ==
    IF f.present THEN Answer("Ok", f.data, Len(f.data), f.attrs, 0)
    ELSE Answer("VarNotFound", <<>>, 0, {}, 0)

FaultAnswers ==
    {Answer("BufferTooSmall", <<>>, 0, {}, 0),
     Answer("PermissionDenied", <<>>, 0, {}, 0),
     Answer("VarUnknownError", <<>>, 0, {}, ERROR_ENVVAR_NOT_FOUND)}

\* read_u16_bytes (read.rs:29): one read of the store and the branch taken on
\* its answer; when the loop is left the getter's remaining code runs
read_u16_bytes(ans, honest) ==
    /\ pc = "read"
    /\ LET r == ReadStep(platform, buf, ans)
       IN  /\ attempts' = attempts + 1
           /\ buf' = r.buf
           /\ IF r.out = "retry"
              THEN pc' = "read" /\ result' = result
              ELSE pc' = "done" /\ result' = Finish(op, r.out, r.buf, ans)
    /\ injected' = (injected \/ ~honest)
    /\ lastAns' = ans
    /\ offers' = Append(offers, buf)
    /\ honest => ext' = ext
    /\ ~honest => ext < MaxExt /\ ext' = ext + 1
    /\ UNCHANGED <<view, iter, chunks, warnings, fsCalls, removed, platform, store, ops, op, arg, guard, payload, size,
                   opWrites, setReqs, pre, acq, lastSet>>

ReadStore ==
    \/ read_u16_bytes(HonestAnswer(store[Target(op)]), TRUE)
    \/ \E ans \in FaultAnswers : read_u16_bytes(ans, FALSE)

\* attributes::temp_mutable(PATH)? in set_oneshot / set_default
Acquire ==
    /\ pc = "acquire"
    /\ \E fault \in {"none", "open", "getflags", "setflags"} :
         LET f == store[Target(op)]
             m == make_mutable(f, fault)
         IN  /\ acq' = [done |-> TRUE, file |-> f, ext |-> ext]
             /\ setReqs' = setReqs \o m.reqs
             /\ guard' = m.guard
             /\ store' = [store EXCEPT ![Target(op)] = [f EXCEPT !.iflags = m.iflags]]
             /\ IF m.res = "Err"
                THEN pc' = "done" /\ result' = Err(m.err)
                ELSE pc' = "write" /\ result' = result
    /\ UNCHANGED <<view, iter, chunks, warnings, fsCalls, removed, platform, ext, ops, op, arg, buf, attempts, payload, size,
                   opWrites, pre, lastAns, injected, lastSet, offers>>

\* the store's write: it fails on an immutable file, and may fail anyway;
\* a variable that does not exist is created (its file with the flags the
\* file system gives a new file)
StoreWrite(f, attrs, data, newflags) ==
    IF f.present THEN [f EXCEPT !.attrs = attrs, !.data = data]
    ELSE Var(attrs, data, newflags)

NewFileFlags == IF platform = "linux" THEN {0, FS_IMMUTABLE_FL} ELSE {0}

\* write_utf16_string (write.rs:10) as called by set_oneshot / set_default
write_utf16_string ==
    /\ pc = "write"
    /\ LET n == Target(op)
           f == store[n]
           buffer == EncodeBuffer(arg)
       IN  /\ payload' = buffer
           /\ warnings' = warnings + NullWarnings(arg)
           /\ \E ok \in BOOLEAN, nf \in NewFileFlags :
                /\ ok => ~(platform = "linux" /\ Immutable(f))
                /\ ~ok => nf = 0
                /\ f.present => nf = 0
                /\ store' = IF ok THEN [store EXCEPT ![n] = StoreWrite(f, entry_flags, buffer, nf)]
                            ELSE store
                /\ opWrites' = Append(opWrites,
                       [name |-> n, attrs |-> entry_flags, data |-> buffer, ok |-> ok])
                /\ result' = IF ok THEN OkUnit ELSE Err("Store")
                /\ lastSet' = IF n # ONESHOT_ENTRY_SHORT THEN lastSet
                              ELSE IF ok THEN [valid |-> TRUE, text |-> arg,
                                               fromAbsent |-> ~pre.present]
                              ELSE lastSet
                /\ removed' = IF n = ONESHOT_ENTRY_SHORT /\ ok THEN FALSE ELSE removed
    /\ pc' = IF guard.held THEN "release" ELSE "done"
    /\ UNCHANGED <<view, iter, chunks, fsCalls, platform, ext, ops, op, arg, buf, attempts, guard, size,
                   setReqs, pre, acq, lastAns, injected, offers>>

\* the guard goes out of scope when set_oneshot / set_default returns
Drop ==
    /\ pc = "release"
    /\ guard.held
    /\ \E ok \in BOOLEAN :
         /\ store' = [store EXCEPT ![Target(op)] = DropGuard(guard, @, ok)]
         /\ setReqs' = Append(setReqs, [attr |-> guard.attr, ok |-> ok])
         /\ result' = DropResult(result, ok)
    /\ guard' = [guard EXCEPT !.held = FALSE]
    /\ pc' = "done"
    /\ UNCHANGED <<view, iter, chunks, warnings, fsCalls, removed, platform, ext, ops, op, arg, buf, attempts, payload, size,
                   opWrites, pre, acq, lastAns, injected, lastSet, offers>>

\* remove_oneshot, Linux build, manager.rs:182-193: File::open and, on the
\* open file, set_immutable(false).  Nothing another process does to the path
\* between the two calls changes what follows: the second acts on the open
\* file.
RemoveOpen ==
    /\ pc = "remove_open"
    /\ LET f == store[ONESHOT_ENTRY_SHORT]
       IN  \E fault \in {"none", "open", "set_immutable"} :
             /\ fault = "set_immutable" => f.present
             /\ IF fault = "none" THEN ext' = ext ELSE ext < MaxExt /\ ext' = ext + 1
             /\ acq' = [done |-> TRUE, file |-> f, ext |-> ext']
             /\ CASE fault = "open" ->
                       /\ fsCalls' = Append(fsCalls, [call |-> "open", res |-> "Err"])
                       /\ store' = store
                       /\ pc' = "done"
                       /\ result' = Err("RemoveOpen")
                  [] fault # "open" /\ ~f.present ->
                       /\ fsCalls' = Append(fsCalls, [call |-> "open", res |-> "NotFound"])
                       /\ store' = store
                       /\ pc' = "remove_file"
                       /\ result' = result
                  [] fault # "open" /\ f.present ->
                       LET s == set_immutable(f, FALSE, fault = "set_immutable")
                       IN  /\ fsCalls' = fsCalls \o <<[call |-> "open", res |-> "Ok"],
                                                      [call |-> "set_immutable", res |-> s.res]>>
                           /\ store' = [store EXCEPT ![ONESHOT_ENTRY_SHORT].iflags = s.iflags]
                           /\ IF s.res = "Err"
                              THEN pc' = "done" /\ result' = Err("SetImmutable")
                              ELSE pc' = "remove_file" /\ result' = result
    /\ UNCHANGED <<view, iter, chunks, warnings, removed, platform, ops, op, arg, buf, attempts, guard, payload, size,
                   opWrites, setReqs, pre, lastAns, injected, lastSet, offers>>

\* remove_oneshot, Linux build, manager.rs:194-202
RemoveFile ==
    /\ pc = "remove_file"
    /\ \E fault \in BOOLEAN :
         LET r == remove_file(store[ONESHOT_ENTRY_SHORT], fault)
         IN  /\ IF fault THEN ext < MaxExt /\ ext' = ext + 1 ELSE ext' = ext
             /\ store' = [store EXCEPT ![ONESHOT_ENTRY_SHORT] = r.file]
             /\ fsCalls' = Append(fsCalls, [call |-> "remove_file", res |-> r.res])
             /\ result' = r.result
             /\ removed' = IF r.result = OkUnit THEN TRUE ELSE removed
             /\ lastSet' = IF r.res = "Ok" THEN NoLastSet ELSE lastSet
    /\ pc' = "done"
    /\ UNCHANGED <<view, iter, chunks, warnings, platform, ops, op, arg, buf, attempts, guard, payload, size,
                   opWrites, setReqs, pre, acq, lastAns, injected, offers>>

\* the operation has returned `result` to its caller; its locals are gone
Return ==
    /\ pc = "done"
    /\ pc' = "idle"
    /\ op' = "none"
    /\ arg' = <<>>
    /\ buf' = INITIAL_BUFFER
    /\ attempts' = 0
    /\ guard' = NoGuard
    /\ result' = Pending
    /\ payload' = <<>>
    /\ opWrites' = <<>>
    /\ setReqs' = <<>>
    /\ pre' = NoVar
    /\ acq' = NotAcquired
    /\ lastAns' = NoAnswer
    /\ injected' = FALSE
    /\ offers' = <<>>
    /\ fsCalls' = <<>>
    /\ warnings' = 0
    /\ UNCHANGED <<view, iter, chunks, removed, platform, store, ext, ops, size, lastSet>>

(***************************************************************************)
(* The outside world, while an operation runs, acting on its variable.     *)
(***************************************************************************)
Running == pc \in {"read", "acquire", "write", "release", "remove_open", "remove_file"}

ExtEffect(n, f) ==
    /\ ext < MaxExt
    /\ ext' = ext + 1
    /\ store' = [store EXCEPT ![n] = f]
    /\ lastSet' = IF n = ONESHOT_ENTRY_SHORT /\ (f.data # store[n].data \/ f.attrs # store[n].attrs
                                                \/ f.present # store[n].present)
                  THEN NoLastSet ELSE lastSet
    /\ removed' = IF n = ONESHOT_ENTRY_SHORT /\ f.present THEN FALSE ELSE removed
    /\ UNCHANGED <<view, iter, chunks, warnings, fsCalls, platform, ops, pc, op, arg, buf, attempts, result, payload, size,
                   opWrites, setReqs, pre, acq, lastAns, injected, offers>>

\* another writer sets the variable
ExtWrite ==
    /\ Running
    /\ LET n == Target(op)
           f == store[n]
       IN  /\ ~(platform = "linux" /\ Immutable(f))
           /\ \E p \in ExtPayloads, a \in {entry_flags} \cup OtherFlags, nf \in NewFileFlags :
                /\ f.present => nf = 0
                /\ ExtEffect(n, StoreWrite(f, a, p, nf))
    /\ UNCHANGED guard

\* the variable is deleted (the boot loader consumed it, or another writer did);
\* a descriptor opened earlier no longer refers to the file at the path
ExtDelete ==
    /\ Running
    /\ LET n == Target(op)
           f == store[n]
       IN  /\ f.present
           /\ ~(platform = "linux" /\ Immutable(f))
           /\ ExtEffect(n, NoVar)
    /\ guard' = [guard EXCEPT !.fileCur = FALSE]

\* another writer replaces the variable's file: the old one is unlinked and a
\* new one with the same content created at the same path
ExtReplace ==
    /\ Running
    /\ LET n == Target(op)
           f == store[n]
       IN  /\ f.present
           /\ ~(platform = "linux" /\ Immutable(f))
           /\ \E nf \in NewFileFlags : ExtEffect(n, Var(f.attrs, f.data, nf))
    /\ guard' = [guard EXCEPT !.fileCur = FALSE]

Next ==
    \/ get_selected_entry
    \/ get_default_entry
    \/ get_oneshot
    \/ entries
    \/ set_oneshot
    \/ set_default
    \/ remove_oneshot
    \/ ReadStore
    \/ Acquire
    \/ write_utf16_string
    \/ Drop
    \/ RemoveOpen
    \/ RemoveFile
    \/ Return
    \/ ExtWrite
    \/ ExtDelete
    \/ ExtReplace

Spec == Init /\ [][Next]_vars

(***************************************************************************)
(* The codec on its own: a text is encoded as write_utf16_string encodes   *)
(* it, and the buffer is read back as read_utf16_string reads it.          *)
(***************************************************************************)
\* no operation has run yet
NoCall ==
    /\ ext = 0
    /\ ops = 0
    /\ buf = INITIAL_BUFFER
    /\ attempts = 0
    /\ guard = NoGuard
    /\ result = Pending
    /\ payload = <<>>
    /\ opWrites = <<>>
    /\ setReqs = <<>>
    /\ pre = NoVar
    /\ acq = NotAcquired
    /\ lastAns = NoAnswer
    /\ injected = FALSE
    /\ lastSet = NoLastSet
    /\ offers = <<>>
    /\ fsCalls = <<>>
    /\ removed = FALSE
    /\ warnings = 0

Fresh ==
    /\ NoCall
    /\ view = NoView
    /\ iter = NoIter
    /\ chunks = <<>>

\* no operation has run yet and the store is empty
Quiet ==
    /\ store = [n \in VarNames |-> NoVar]
    /\ Fresh

Idle ==
    /\ platform = "linux"
    /\ Quiet

CodecInit ==
    /\ Idle
    /\ op = "none"
    /\ arg \in Texts
    /\ size = 0
    /\ pc = "encode"

\* write_utf16_string, lines 16-30
Encode ==
    /\ pc = "encode"
    /\ payload' = EncodeBuffer(arg)
    /\ warnings' = warnings + NullWarnings(arg)
    /\ pc' = "decode"
    /\ UNCHANGED <<view, iter, chunks, fsCalls, removed, platform, store, ext, ops, op, arg, buf, attempts, guard, result,
                   size, opWrites, setReqs, pre, acq, lastAns, injected, lastSet,
                   offers>>

\* read_u16_bytes on the stored buffer (lines 39-45), then read_utf16_string
Decode ==
    /\ pc = "decode"
    /\ LET ans == Answer("Ok", payload, Len(payload), entry_flags, 0)
           r == ReadStep(platform, buf, ans)
       IN  /\ buf' = r.buf
           /\ attempts' = attempts + 1
           /\ result' = Finish("get_default_entry", r.out, r.buf, ans)
    /\ pc' = "decoded"
    /\ UNCHANGED <<view, iter, chunks, warnings, fsCalls, removed, platform, store, ext, ops, op, arg, guard, payload,
                   size, opWrites, setReqs, pre, acq, lastAns, injected, lastSet,
                   offers>>

CodecNext == Encode \/ Decode

SpecCodec == CodecInit /\ [][CodecNext]_vars

(***************************************************************************)
(* The reader on its own, against a store that holds a payload of `size`   *)
(* bytes and rejects exactly the buffers that are smaller.                 *)
(***************************************************************************)
\* buffer doublings covered by the payload sizes
MaxGrow == 14

RECURSIVE Pow2(_)
Pow2(k) == IF k = 0 THEN 1 ELSE 2 * Pow2(k - 1)

Sizes ==
    {0, 1, 15, 16, 511, 512, 513}
        \cup {1024 * Pow2(k) + d : k \in 0..MaxGrow, d \in {-1, 0, 1}}

SizedAnswer(n, offered) ==
    IF offered < n THEN Answer("BufferTooSmall", <<>>, 0, {}, 0)
    ELSE Answer("Ok", <<>>, n, entry_flags, 0)

ReadInit ==
    /\ Idle
    /\ op = "read_u16_bytes"
    /\ arg = <<>>
    /\ size \in Sizes
    /\ pc = "read"

\* the byte view offers to the store is twice the buffer's length (as_u8_mut)
ReadSized ==
    read_u16_bytes(SizedAnswer(size, 2 * buf), TRUE)

ReadNext == ReadSized

SpecRead == ReadInit /\ [][ReadNext]_vars

(***************************************************************************)
(* The reader against a store that answers each read as it likes: any      *)
(* error, or a success of any reported length, whatever the buffer was.    *)
(***************************************************************************)
\* byte lengths a successful read may report
AnyLengths == {0, 1, 15, 16}

AnyAnswers ==
    {Answer("Ok", <<>>, n, a, 0) : n \in AnyLengths, a \in {entry_flags} \cup OtherFlags}
        \cup {Answer("VarNotFound", <<>>, 0, {}, 0),
              Answer("BufferTooSmall", <<>>, 0, {}, 0),
              Answer("PermissionDenied", <<>>, 0, {}, 0),
              Answer("VarUnknownError", <<>>, 0, {}, ERROR_ENVVAR_NOT_FOUND)}

ReadAnyInit ==
    /\ platform \in {"linux", "windows"}
    /\ Quiet
    /\ op = "read_u16_bytes"
    /\ arg = <<>>
    /\ size = 0
    /\ pc = "read"

ReadAny == \E ans \in AnyAnswers : read_u16_bytes(ans, TRUE)

ReadAnyNext == ReadAny

SpecReadAny == ReadAnyInit /\ [][ReadAnyNext]_vars

(***************************************************************************)
(* The readers of a payload on their own: a variable holding any sequence  *)
(* of 16-bit units is read by get_default_entry (read_utf16_string) or by  *)
(* entries.                                                                *)
(***************************************************************************)
\* longest payload, in 16-bit units
MaxUnits == 7

\* a terminator, a letter, a high and a low surrogate
PayloadUnits == {0, 119, 55296, 56320}

PayloadInit ==
    /\ platform = "linux"
    /\ \/ \E us \in SeqsUpTo(PayloadUnits, MaxUnits) :
             store = [n \in VarNames |-> Var(entry_flags, UnitsToBytes(us), 0)]
       \/ store = [n \in VarNames |-> NoVar]
    /\ Fresh
    /\ op \in {"get_default_entry", "entries"}
    /\ arg = <<>>
    /\ size = 0
    /\ pc = "read"

ReadPayload == read_u16_bytes(HonestAnswer(store[Target(op)]), TRUE)

PayloadNext == ReadPayload

SpecPayload == PayloadInit /\ [][PayloadNext]_vars

(***************************************************************************)
(* U16ArrayExt on its own: the store writes the bytes view.stored through  *)
(* the byte view of a zeroed u16 buffer, the buffer is cut to the length   *)
(* read, and its byte view is taken again.                                 *)
(***************************************************************************)
\* longest payload, in bytes
MaxBytes == 4

ViewBytes == {0, 1, 255}

\* the two bytes of a u16 in memory, in the byte order of the target
to_ne_bytes(u, endian) ==
    IF endian = "little" THEN <<u % 256, u \div 256>> ELSE <<u \div 256, u % 256>>

from_ne_bytes(b1, b2, endian) ==
    IF endian = "little" THEN b1 + 256 * b2 ELSE 256 * b1 + b2

\* a byte view with one byte for each unit
RECURSIVE as_u8_sameLength(_, _)
as_u8_sameLength(us, endian) ==
    IF us = <<>> THEN <<>>
    ELSE <<Head(us) % 256>> \o as_u8_sameLength(Tail(us), endian)

\* U16ArrayExt::as_u8 (array_ext.rs:12-18): the same memory as bytes, length
\* self.len() * 2
RECURSIVE as_u8(_, _)
as_u8(us, endian) ==
    IF us = <<>> THEN <<>>
    ELSE to_ne_bytes(Head(us), endian) \o as_u8(Tail(us), endian)

\* U16ArrayExt::as_u8_mut (array_ext.rs:20-26): the same view, writable
RECURSIVE as_u8_mut(_, _)
as_u8_mut(us, endian) ==
    IF us = <<>> THEN <<>>
    ELSE to_ne_bytes(Head(us), endian) \o as_u8_mut(Tail(us), endian)

\* the u16 buffer whose byte view is bs (an even number of bytes)
UnitsOfView(bs, endian) ==
    [i \in 1..(Len(bs) \div 2) |-> from_ne_bytes(bs[2 * i - 1], bs[2 * i], endian)]

Zeroes(n) == [i \in 1..n |-> 0]

ViewInit ==
    /\ platform = "linux"
    /\ store = [n \in VarNames |-> NoVar]
    /\ NoCall
    /\ iter = NoIter
    /\ chunks = <<>>
    /\ op = "none"
    /\ arg = <<>>
    /\ size = 0
    /\ view \in {[endian |-> e, stored |-> bs, units |-> <<>>, bytes |-> <<>>] :
                    e \in {"little", "big"}, bs \in SeqsUpTo(ViewBytes, MaxBytes)}
    /\ pc = "view_mut"

\* read_u16_bytes, lines 34-45: the store fills buffer.as_u8_mut() with the
\* payload, the buffer is resized to divide_up(length, 2) units
AsU8Mut ==
    /\ pc = "view_mut"
    /\ LET buffer == Zeroes(divide_up(MaxBytes, 2))
           bytes == as_u8_mut(buffer, view.endian)
           written == view.stored \o SubSeq(bytes, Len(view.stored) + 1, Len(bytes))
           units == UnitsOfView(written, view.endian)
       IN  view' = [view EXCEPT !.units = SubSeq(units, 1, divide_up(Len(view.stored), 2))]
    /\ pc' = "view"
    /\ UNCHANGED <<platform, store, ext, ops, op, arg, buf, attempts, guard, result,
                   payload, size, opWrites, setReqs, pre, acq, lastAns, injected,
                   lastSet, offers, fsCalls, removed, warnings, iter, chunks>>

\* as_u8 on the buffer read
AsU8 ==
    /\ pc = "view"
    /\ view' = [view EXCEPT !.bytes = as_u8(view.units, view.endian)]
    /\ pc' = "viewed"
    /\ UNCHANGED <<platform, store, ext, ops, op, arg, buf, attempts, guard, result,
                   payload, size, opWrites, setReqs, pre, acq, lastAns, injected,
                   lastSet, offers, fsCalls, removed, warnings, iter, chunks>>

ViewNext == AsU8Mut \/ AsU8

SpecView == ViewInit /\ [][ViewNext]_vars

(***************************************************************************)
(* split_position of the interactive shell, interactive.rs: a line is a    *)
(* sequence of characters (code points); positions are counted in bytes of *)
(* its UTF-8 form.                                                         *)
(***************************************************************************)
\* longest line, in characters
MaxLine == 5

\* a space, an ideographic space (3 bytes), 'a', 'o' with diaeresis (2 bytes)
LineChars == {32, 12288, 97, 246}

\* char::is_whitespace: the code points with the White_Space property
is_whitespace(c) ==
    c \in (9..13) \cup {32, 133, 160, 5760} \cup (8192..8202)
            \cup {8232, 8233, 8239, 8287, 12288}

\* char::len_utf8
len_utf8(c) ==
    IF c < 128 THEN 1 ELSE IF c < 2048 THEN 2 ELSE IF c < 65536 THEN 3 ELSE 4

\* the bytes of one character of a &str
to_utf8(c) ==
    IF c < 128 THEN <<c>>
    ELSE IF c < 2048 THEN <<192 + (c \div 64), 128 + (c % 64)>>
    ELSE IF c < 65536
    THEN <<224 + (c \div 4096), 128 + ((c \div 64) % 64), 128 + (c % 64)>>
    ELSE <<240 + (c \div 262144), 128 + ((c \div 4096) % 64),
           128 + ((c \div 64) % 64), 128 + (c % 64)>>

\* the bytes of a &str
RECURSIVE as_bytes(_)
as_bytes(line) ==
    IF line = <<>> THEN <<>> ELSE to_utf8(Head(line)) \o as_bytes(Tail(line))

\* str::char_indices: the byte index of the i-th character
RECURSIVE char_index(_, _)
char_index(line, i) ==
    IF i = 1 THEN 0 ELSE char_index(line, i - 1) + len_utf8(line[i - 1])

\* split_position (interactive.rs:69-74)
split_position(line) == [last_position |-> 0, line |-> line]

\* an iterator that advances by characters, not by bytes
SplitPosition_next_countChars(it) ==
    IF it.line = <<>>
    THEN [some |-> FALSE, offset |-> 0, chunk |-> <<>>, iter |-> it]
    ELSE IF \E i \in 1..Len(it.line) : is_whitespace(it.line[i])
    THEN LET i == CHOOSE i \in 1..Len(it.line) :
                     /\ is_whitespace(it.line[i])
                     /\ \A j \in 1..(i - 1) : ~is_whitespace(it.line[j])
             whitespace_position == i - 1
             current_position == it.last_position
         IN  [some |-> TRUE, offset |-> current_position,
              chunk |-> SubSeq(it.line, 1, i - 1),
              iter |-> [last_position |-> it.last_position + whitespace_position + 1,
                        line |-> SubSeq(it.line, i + 1, Len(it.line))]]
    ELSE [some |-> TRUE, offset |-> it.last_position, chunk |-> it.line,
          iter |-> [it EXCEPT !.line = <<>>]]

\* SplitPosition::next (interactive.rs:47-66): None on an empty line; else the
\* text before the first whitespace character with the position it starts at,
\* the iterator moving past that character; without whitespace, what remains
SplitPosition_next(it) ==
    IF it.line = <<>>
    THEN [some |-> FALSE, offset |-> 0, chunk |-> <<>>, iter |-> it]
    ELSE IF \E i \in 1..Len(it.line) : is_whitespace(it.line[i])
    THEN LET i == CHOOSE i \in 1..Len(it.line) :
                     /\ is_whitespace(it.line[i])
                     /\ \A j \in 1..(i - 1) : ~is_whitespace(it.line[j])
             whitespace_position == char_index(it.line, i)
             whitespace_char == it.line[i]
             current_position == it.last_position
         IN  [some |-> TRUE, offset |-> current_position,
              chunk |-> SubSeq(it.line, 1, i - 1),
              iter |-> [last_position |-> it.last_position + whitespace_position
                                              + len_utf8(whitespace_char),
                        line |-> SubSeq(it.line, i + 1, Len(it.line))]]
    ELSE [some |-> TRUE, offset |-> it.last_position, chunk |-> it.line,
          iter |-> [it EXCEPT !.line = <<>>]]

SplitInit ==
    /\ platform = "linux"
    /\ store = [n \in VarNames |-> NoVar]
    /\ NoCall
    /\ view = NoView
    /\ op = "none"
    /\ size = 0
    /\ arg \in SeqsUpTo(LineChars, MaxLine)
    /\ iter = split_position(arg)
    /\ chunks = <<>>
    /\ pc = "split"

\* one call of next() by the consumer of the iterator
SplitNext ==
    /\ pc = "split"
    /\ LET r == SplitPosition_next(iter)
       IN  /\ iter' = r.iter
           /\ chunks' = IF r.some
                        THEN Append(chunks, [offset |-> r.offset, chunk |-> r.chunk])
                        ELSE chunks
           /\ pc' = IF r.some THEN "split" ELSE "split_done"
    /\ UNCHANGED <<platform, store, ext, ops, op, arg, buf, attempts, guard, result,
                   payload, size, opWrites, setReqs, pre, acq, lastAns, injected,
                   lastSet, offers, fsCalls, removed, warnings, view>>

SpecSplit == SplitInit /\ [][SplitNext]_vars

(***************************************************************************)
(* Properties.                                                             *)
(***************************************************************************)
Getters == {"get_default_entry", "get_selected_entry", "get_oneshot"}
Setters == {"set_oneshot", "set_default"}

Returned(o) == pc = "done" /\ op = o

\* C1: starting from a store without LoaderEntryOneShot, a successful
\* set_oneshot(v), v without NUL, issues exactly one store write, to
\* LoaderEntryOneShot, with the UTF-16LE bytes of v followed by two zero bytes
\* and the attributes NON_VOLATILE | BOOTSERVICE_ACCESS | RUNTIME_ACCESS; and a
\* get_oneshot() that reads the variable as that write left it returns v.
C1_SetThenGet ==
    /\ (Returned("set_oneshot") /\ result = OkUnit /\ ~pre.present /\ ~HasNul(arg))
          => opWrites = <<[name |-> "LoaderEntryOneShot",
                           attrs |-> {"NON_VOLATILE", "BOOTSERVICE_ACCESS", "RUNTIME_ACCESS"},
                           data |-> UnitsToBytes(encode_utf16(arg)) \o <<0, 0>>,
                           ok |-> TRUE]>>
    /\ (Returned("get_oneshot") /\ lastSet.valid /\ lastSet.fromAbsent
          /\ ~HasNul(lastSet.text) /\ ~injected)
          => (result.kind = "OkSome" /\ result.text = lastSet.text)

C1_Witness ==
    /\ Returned("get_oneshot")
    /\ lastSet = [valid |-> TRUE, text |-> <<119>>, fromAbsent |-> TRUE]
    /\ ~injected
    /\ store["LoaderEntryOneShot"].data = <<119, 0, 0, 0>>
    /\ result.kind = "OkSome"
    /\ result.text = <<119>>

\* C2: for every text s without NUL (the empty text included), decoding the
\* buffer the encoder produces for s yields exactly s.
C2_RoundTrip ==
    (pc = "decoded" /\ ~HasNul(arg)) => (result.kind = "OkSome" /\ result.text = arg)

C2_Witness ==
    /\ pc = "decoded"
    /\ arg = <<65536, 119>>
    /\ payload = <<0, 216, 0, 220, 119, 0, 0, 0>>
    /\ result.text = <<65536, 119>>

\* C3 as claimed: get_oneshot() on a present LoaderEntryOneShot returns an
\* attribute-mismatch error when the stored attributes are not exactly the
\* three entry flags, and the decoded value when they are.
C3_AsClaimed ==
    (Returned("get_oneshot") /\ lastAns.kind = "Ok")
        => LET f == store[ONESHOT_ENTRY_SHORT]
           IN  IF f.attrs # entry_flags
               THEN result = Err("AttributeMismatch")
               ELSE result.kind = "OkSome"

\* C3: get_oneshot() on a present LoaderEntryOneShot whose payload is valid
\* UTF-16 returns an attribute-mismatch error when the stored attributes are
\* not exactly the three entry flags and the decoded value when they are; a
\* payload that is not valid UTF-16 gives a decode error whatever the
\* attributes; a value is never returned for other attributes.
C3_AttributeCheck ==
    (Returned("get_oneshot") /\ lastAns.kind = "Ok")
        => LET f == store[ONESHOT_ENTRY_SHORT]
               value == from_utf16(TrimNul(BytesToUnits(f.data)))
           IN  /\ f.present
               /\ (f.attrs # entry_flags) => result.kind # "OkSome"
               /\ (value.ok /\ f.attrs # entry_flags) => result = Err("AttributeMismatch")
               /\ (value.ok /\ f.attrs = entry_flags)
                     => (result.kind = "OkSome" /\ result.text = value.text)
               /\ ~value.ok => result = Err("NonUtf16")

C3_Witness ==
    /\ Returned("get_oneshot")
    /\ lastAns.kind = "Ok"
    /\ store[ONESHOT_ENTRY_SHORT].attrs = {"NON_VOLATILE", "BOOTSERVICE_ACCESS"}
    /\ store[ONESHOT_ENTRY_SHORT].data = <<0, 1, 0, 0>>
    /\ result = Err("AttributeMismatch")

\* the store's "variable not found": VarNotFound, and on Windows the OS error
\* ERROR_ENVVAR_NOT_FOUND inside VarUnknownError
NotFoundSignal ==
    \/ lastAns.kind = "VarNotFound"
    \/ platform = "windows" /\ lastAns.kind = "VarUnknownError" /\ lastAns.os = 203

\* C4: when the store answers a read with "variable not found", at the first
\* attempt or at a later one, get_default_entry(), get_selected_entry() and
\* get_oneshot() return Ok(None).
C4_NotFoundIsAbsent ==
    (pc = "done" /\ op \in Getters /\ NotFoundSignal) => result = OkNone

C4_Witness ==
    /\ Returned("get_default_entry")
    /\ lastAns.kind = "VarNotFound"
    /\ attempts = 2
    /\ buf = 1024
    /\ result = OkNone

LastReq == setReqs[Len(setReqs)]

C6_AbsentFileGivesGuard ==
    (pc = "done" /\ op \in Setters /\ acq.done /\ ~acq.file.present)
        => (result.err # "GuardOpen" /\ Len(opWrites) = 1)

\* C7 (the claim): when the file was deleted and recreated between acquisition
\* and release, a successful release leaves the captured flag word on the
\* file that is at the path now.
C7_RestoreByPath ==
    (pc = "done" /\ op \in Setters /\ guard.taken /\ ~guard.fileCur
        /\ store[Target(op)].present /\ LastReq.ok)
        => store[Target(op)].iflags = guard.attr

\* C8: acquiring the guard on an existing file whose immutable bit is clear
\* returns no guard and issues no FS_IOC_SETFLAGS request, and while nobody
\* else touches the file its flag word stays what it was before the
\* acquisition, through the bracketed write and the return.
C8_ClearBitUntouched ==
    (op \in Setters /\ acq.done /\ acq.file.present
        /\ BitAnd(acq.file.iflags, FS_IMMUTABLE_FL) = 0)
        => /\ ~guard.taken
           /\ ~guard.held
           /\ setReqs = <<>>
           /\ result.err # "GuardSetFlags"
           /\ (pc = "done" /\ result.err \notin {"GuardOpen", "GuardGetFlags"})
                 => Len(opWrites) = 1
           /\ (ext = acq.ext) => store[Target(op)].iflags = acq.file.iflags

C8_Witness ==
    /\ Returned("set_oneshot")
    /\ acq.done
    /\ acq.file.iflags = 128
    /\ result = OkUnit
    /\ Len(opWrites) = 1
    /\ store[ONESHOT_ENTRY_SHORT].iflags = 128

\* 8 MiB, the byte size of the largest buffer
CeilingBytes == 2 * MAX_BUFFER

\* n <= 1024 * 2^k, for k of either sign (k >= -10, so the division is exact)
FitsScaled(n, k) == IF k >= 0 THEN n <= 1024 * Pow2(k) ELSE n <= 1024 \div Pow2(0 - k)

\* ceil(log2(n / 1024)) for n >= 1: the least k with n <= 1024 * 2^k
CeilLog2Of1024th(n) ==
    CHOOSE k \in (0 - 10)..(MaxGrow + 1) :
        /\ FitsScaled(n, k)
        /\ \A j \in (0 - 10)..(k - 1) : ~FitsScaled(n, j)

MaxOf(a, b) == IF a >= b THEN a ELSE b

\* C9 as claimed: for a payload of 1 <= N <= 8 MiB bytes, read_u16_bytes
\* succeeds after at most ceil(log2(N / 1024)) + 1 reads.
C9_AsClaimed ==
    (pc = "done" /\ size >= 1 /\ size <= CeilingBytes)
        => (result.kind = "OkSome" /\ attempts <= CeilLog2Of1024th(size) + 1)

\* C9: for a payload of N <= 8 MiB bytes, read_u16_bytes succeeds after at
\* most max(ceil(log2(N / 1024)), 0) + 1 reads: one read when N <= 1024.
C9_AttemptsBound ==
    (pc = "done" /\ size <= CeilingBytes)
        => /\ result.kind = "OkSome"
           /\ result.len = divide_up(size, 2)
           /\ attempts >= 1
           /\ attempts <= (IF size <= 1024 THEN 0 ELSE MaxOf(CeilLog2Of1024th(size), 0)) + 1

C9_Witness ==
    /\ pc = "done"
    /\ size = 8388608
    /\ attempts = 14
    /\ result.kind = "OkSome"
    /\ result.len = 4194304

\* C10: for a payload larger than 8 MiB read_u16_bytes ends with the
\* size-exceeded failure (not Ok(None), not a wrapped store error) after 14
\* reads, the last with the buffer at its ceiling.
C10_SizeExceeded ==
    (size > CeilingBytes)
        => /\ attempts <= 14
           /\ buf <= MAX_BUFFER
           /\ pc = "done" => (result = Err("SizeExceeded") /\ attempts = 14
                                /\ buf = MAX_BUFFER)

C10_Witness ==
    /\ pc = "done"
    /\ size = 8388609
    /\ attempts = 14
    /\ buf = 4194304
    /\ result.kind = "Err"
    /\ result.err = "SizeExceeded"

\* C11: in every read attempt of read_u16_bytes, whatever the store answered
\* to the attempts before, the buffer offered is 512 * 2^k sixteen-bit units
\* for some k >= 0, each retry offers exactly twice the previous size, and no
\* offered size exceeds 8 * 512 * 1024 units.
C11_BufferSizes ==
    /\ Len(offers) = attempts
    /\ pc = "read" => buf = 512 * Pow2(attempts)
    /\ \A i \in 1..Len(offers) :
          /\ \E k \in 0..13 : offers[i] = 512 * Pow2(k)
          /\ offers[i] <= 8 * 512 * 1024
          /\ i = 1 => offers[i] = 512
          /\ i > 1 => offers[i] = 2 * offers[i - 1]

C11_Witness ==
    /\ pc = "done"
    /\ Len(offers) = 14
    /\ offers[1] = 512
    /\ offers[2] = 1024
    /\ offers[14] = 4194304
    /\ lastAns.kind = "Ok"

\* C12: when the store reports a successful read of `length` bytes,
\* read_u16_bytes returns a buffer of exactly ceil(length / 2) sixteen-bit
\* units (15 and 16 bytes both give 8 units) together with the attributes the
\* store reported.
C12_ResizeToLength ==
    (pc = "done" /\ op = "read_u16_bytes" /\ lastAns.kind = "Ok")
        => /\ result.kind = "OkSome"
           /\ 2 * result.len >= lastAns.length
           /\ 2 * result.len <= lastAns.length + 1
           /\ lastAns.length \in {15, 16} => result.len = 8
           /\ result.flags = lastAns.attrs

C12_Witness ==
    /\ pc = "done"
    /\ op = "read_u16_bytes"
    /\ attempts = 2
    /\ lastAns.kind = "Ok"
    /\ lastAns.length = 15
    /\ lastAns.attrs = {"NON_VOLATILE", "BOOTSERVICE_ACCESS"}
    /\ result.len = 8
    /\ result.flags = {"NON_VOLATILE", "BOOTSERVICE_ACCESS"}

\* the units of LoaderEntries as the store holds them
StoredEntries == BytesToUnits(store[LOADER_ENTRIES_SHORT].data)

\* the index of the zero unit that makes the first empty segment: a zero at
\* the start or right after another zero; one past the end if there is none
FirstEmpty(us) ==
    IF \E i \in 1..Len(us) : us[i] = 0 /\ (i = 1 \/ us[i - 1] = 0)
    THEN CHOOSE i \in 1..Len(us) :
            /\ us[i] = 0 /\ (i = 1 \/ us[i - 1] = 0)
            /\ \A j \in 1..(i - 1) : ~(us[j] = 0 /\ (j = 1 \/ us[j - 1] = 0))
    ELSE Len(us) + 1

\* the payload before its first empty segment
Scanned(us) == SubSeq(us, 1, FirstEmpty(us) - 1)

\* the entries of a list, each followed by its terminator
RECURSIVE Terminated(_)
Terminated(l) ==
    IF l = <<>> THEN <<>>
    ELSE encode_utf16(Head(l)) \o <<0>> \o Terminated(Tail(l))

WithTerminator(us) ==
    IF us = <<>> \/ us[Len(us)] = 0 THEN us ELSE Append(us, 0)

\* C13: entries() returns, in payload order, exactly the zero-separated
\* segments that precede the first empty segment: when these are all valid
\* UTF-16 the returned entries are non-empty and NUL-free and, written one
\* after the other each with its terminator, spell the payload up to the first
\* empty segment; nothing after that segment is returned.
C13_EntriesInOrder ==
    (pc = "done" /\ op = "entries" /\ lastAns.kind = "Ok"
        /\ from_utf16(Scanned(StoredEntries)).ok)
        => /\ result.kind = "OkList"
           /\ \A k \in 1..Len(result.list) :
                 result.list[k] # <<>> /\ ~HasNul(result.list[k])
           /\ Terminated(result.list) = WithTerminator(Scanned(StoredEntries))

C13_Witness ==
    /\ pc = "done"
    /\ op = "entries"
    /\ StoredEntries = <<119, 0, 119, 119, 0, 0, 119>>
    /\ result.kind = "OkList"
    /\ result.list = << <<119>>, <<119, 119>> >>

\* where the segments before the first empty one start
SegStarts(us) == {i \in 1..Len(Scanned(us)) : i = 1 \/ us[i - 1] = 0}

\* the segment starting at i: up to the next zero unit or the end
SegAt(us, i) ==
    LET s == Scanned(us)
        end == IF \E j \in i..Len(s) : s[j] = 0
               THEN (CHOOSE j \in i..Len(s) : s[j] = 0 /\ \A k \in i..(j - 1) : s[k] # 0) - 1
               ELSE Len(s)
    IN  SubSeq(s, i, end)

ValidStarts(us) == {i \in SegStarts(us) : from_utf16(SegAt(us, i)).ok}

\* C14: in entries(), a non-empty segment that is not valid UTF-16 is skipped
\* without failing the call: entries() succeeds and returns every valid
\* segment before and after it, up to the first empty segment, in order (the
\* k-th entry returned is the k-th valid segment).
C14_InvalidSkipped ==
    (pc = "done" /\ op = "entries" /\ lastAns.kind = "Ok")
        => LET us == StoredEntries
               valid == ValidStarts(us)
           IN  /\ result.kind = "OkList"
               /\ Len(result.list) = Cardinality(valid)
               /\ \A i \in valid :
                     LET k == Cardinality({j \in valid : j < i}) + 1
                     IN  encode_utf16(result.list[k]) = SegAt(us, i)

C14_Witness ==
    /\ pc = "done"
    /\ op = "entries"
    /\ StoredEntries = <<119, 0, 55296, 0, 119, 119, 0>>
    /\ result.kind = "OkList"
    /\ result.list = << <<119>>, <<119, 119>> >>

\* the last file system call remove_oneshot made
LastCall == fsCalls[Len(fsCalls)]

\* C15: on the file-backed platform remove_oneshot() returns success when the
\* backing file is already absent: a "not found" from the open is no error
\* (the deletion is still attempted) and a "not found" from the deletion is a
\* success; whenever remove_oneshot() returns success the backing file does
\* not exist, and a get_oneshot() that follows, nobody having set the variable
\* in between, returns absent.
C15_RemoveLeavesAbsent ==
    /\ (Returned("remove_oneshot") /\ platform = "linux")
          => /\ fsCalls # <<>>
             /\ fsCalls[1] = [call |-> "open", res |-> "NotFound"]
                   => (Len(fsCalls) = 2 /\ fsCalls[2].call = "remove_file")
             /\ (LastCall.call = "remove_file" /\ LastCall.res \in {"Ok", "NotFound"})
                   => result = OkUnit
             /\ (fsCalls[1].res = "NotFound" /\ ext = acq.ext) => result = OkUnit
             /\ result = OkUnit => ~store["LoaderEntryOneShot"].present
             /\ result = OkUnit => removed
    /\ (Returned("get_oneshot") /\ platform = "linux" /\ removed /\ ~injected)
          => result = OkNone

C15_Witness ==
    /\ Returned("remove_oneshot")
    /\ platform = "linux"
    /\ acq.file.iflags = 144
    /\ fsCalls = <<[call |-> "open", res |-> "Ok"],
                   [call |-> "set_immutable", res |-> "Ok"],
                   [call |-> "remove_file", res |-> "NotFound"]>>
    /\ result = OkUnit
    /\ ~store["LoaderEntryOneShot"].present

\* C16 (the claim): on the platform without deletion-by-file,
\* remove_oneshot() issues one store write, to LoaderEntryOneShot, whose
\* payload has length zero.
C16_ZeroLengthWrite ==
    (Returned("remove_oneshot") /\ platform = "windows")
        => /\ Len(opWrites) = 1
           /\ opWrites[1].name = "LoaderEntryOneShot"
           /\ Len(opWrites[1].data) = 0

\* the units of LoaderEntryDefault as the store holds them
StoredDefault == BytesToUnits(store[LOADER_ENTRY_DEFAULT].data)

\* C17: decoding (read_utf16_string) removes exactly one trailing zero code
\* unit when the payload ends with one and removes nothing otherwise: the text
\* returned, encoded again, is the payload without that one unit; a payload
\* ending in two zero units decodes to a text that still ends with NUL, and a
\* payload with no trailing zero unit is decoded in full.
C17_TrimOneNul ==
    (pc = "done" /\ op = "get_default_entry" /\ lastAns.kind = "Ok")
        => LET us == StoredDefault
               n == Len(us)
               kept == IF n >= 1 /\ us[n] = 0 THEN n - 1 ELSE n
           IN  /\ result.kind \in {"OkSome", "Err"}
               /\ result.kind = "Err" => (result.err = "NonUtf16" /\ ~from_utf16(SubSeq(us, 1, kept)).ok)
               /\ result.kind = "OkSome" =>
                     /\ encode_utf16(result.text) = SubSeq(us, 1, kept)
                     /\ (n >= 2 /\ us[n] = 0 /\ us[n - 1] = 0)
                           => (result.text # <<>> /\ result.text[Len(result.text)] = NUL)
                     /\ (n >= 1 /\ us[n] # 0) => encode_utf16(result.text) = us

C17_Witness ==
    /\ pc = "done"
    /\ op = "get_default_entry"
    /\ StoredDefault = <<119, 0, 0>>
    /\ result.kind = "OkSome"
    /\ result.text = <<119, 0>>

\* C18: every payload write_utf16_string hands to the store has even length
\* >= 2 and ends with one zero code unit (two zero bytes); two zero bytes are
\* appended to the encoded text exactly when it does not already end with a
\* zero code unit, so a text already ending in NUL is written without an
\* extra terminator.
C18_PayloadTerminated ==
    (pc \in {"decode", "decoded"})
        => LET units == encode_utf16(arg)
               n == Len(payload)
               terminated == units # <<>> /\ units[Len(units)] = 0
           IN  /\ n % 2 = 0
               /\ n >= 2
               /\ payload[n - 1] = 0 /\ payload[n] = 0
               /\ SubSeq(payload, 1, 2 * Len(units)) = UnitsToBytes(units)
               /\ n = 2 * Len(units) + (IF terminated THEN 0 ELSE 2)

C18_Witness ==
    /\ pc = "decode"
    /\ arg = <<256, 0>>
    /\ payload = <<0, 1, 0, 0>>

\* C19 (the claim): write_utf16_string logs the embedded-terminator warning for
\* a zero code unit only when that unit occurs before the end of the string: the
\* warnings logged are as many as the NULs that are not the last character.
C19_WarnOnlyEmbedded ==
    (pc \in {"decode", "decoded"})
        => warnings = Cardinality({i \in 1..(Len(arg) - 1) : arg[i] = NUL})

\* C20: every write the Manager has issued to the store carries exactly the
\* attributes non-volatile | boot-service-access | runtime-access and targets
\* LoaderEntryOneShot (from set_oneshot, remove_oneshot calling it included)
\* or LoaderEntryDefault (from set_default); no get_* / entries call has
\* issued a write.
C20_WritesCarryEntryFlags ==
    /\ \A i \in 1..Len(opWrites) :
          /\ opWrites[i].attrs = {"NON_VOLATILE", "BOOTSERVICE_ACCESS", "RUNTIME_ACCESS"}
          /\ op \in {"set_oneshot", "set_default", "remove_oneshot"}
          /\ op = "set_default" => opWrites[i].name = "LoaderEntryDefault"
          /\ op \in {"set_oneshot", "remove_oneshot"} => opWrites[i].name = "LoaderEntryOneShot"
          /\ (opWrites[i].ok /\ ext = 0)
                => (store[opWrites[i].name].present
                      /\ store[opWrites[i].name].attrs = opWrites[i].attrs)
    /\ Len(opWrites) <= 1
    /\ op \in {"get_default_entry", "get_selected_entry", "get_oneshot", "entries"}
          => opWrites = <<>>
    /\ (op = "remove_oneshot" /\ platform = "linux") => opWrites = <<>>

C20_Witness ==
    /\ Returned("set_default")
    /\ result = OkUnit
    /\ opWrites = <<[name |-> "LoaderEntryDefault",
                     attrs |-> {"NON_VOLATILE", "BOOTSERVICE_ACCESS", "RUNTIME_ACCESS"},
                     data |-> <<119, 0, 0, 0>>, ok |-> TRUE]>>

\* C21 as claimed: get_oneshot() and get_default_entry() answered by the store
\* with a value whose attributes are not NON_VOLATILE | BOOTSERVICE_ACCESS |
\* RUNTIME_ACCESS return an error, not the stored value.
C21_MismatchIsError ==
    (pc = "done" /\ op \in {"get_oneshot", "get_default_entry"}
        /\ lastAns.kind = "Ok" /\ lastAns.attrs # entry_flags)
       => result.kind = "Err"

GuardErrors == {"GuardOpen", "GuardGetFlags", "GuardSetFlags"}

\* C22: when the acquisition of the guard fails in set_oneshot / set_default
\* (the file cannot be opened, its flags cannot be read, or the request that
\* clears the immutable bit fails) the operation returns that error and no
\* write is issued to the store; an operation that returns without a write
\* returns such an error.
C22_AcquireFailureNoWrite ==
    (pc = "done" /\ op \in Setters /\ platform = "linux")
       => /\ acq.done
          /\ (result.err \in GuardErrors) <=> (opWrites = <<>>)
          /\ (setReqs # <<>> /\ ~setReqs[1].ok)
                => (result = Err("GuardSetFlags") /\ opWrites = <<>> /\ ~guard.taken)
          /\ ~acq.file.present => (result = Err("GuardOpen") /\ opWrites = <<>>)
          /\ (opWrites = <<>> /\ ext = acq.ext) => store[Target(op)] = acq.file

C22_Witness ==
    /\ Returned("set_oneshot")
    /\ platform = "linux"
    /\ result = Err("GuardSetFlags")
    /\ setReqs = <<[attr |-> 128, ok |-> FALSE]>>
    /\ opWrites = <<>>
    /\ Immutable(store["LoaderEntryOneShot"])

\* C23: a failure to restore the flags when the guard is released is only
\* logged: with a guard taken, set_oneshot / set_default returns what the one
\* store write it bracketed returned, success or the write's error, whether
\* the restoring request succeeded or failed.
C23_RestoreFailureLogged ==
    (pc = "done" /\ op \in Setters /\ guard.taken)
       => /\ Len(opWrites) = 1
          /\ Len(setReqs) = 2
          /\ result = IF opWrites[1].ok THEN OkUnit ELSE Err("Store")

C23_Witness ==
    /\ Returned("set_default")
    /\ guard.taken
    /\ Len(setReqs) = 2
    /\ ~LastReq.ok
    /\ opWrites[1].ok
    /\ result = OkUnit

Readers == Getters \cup {"entries"}

\* C24: an error of the store is never retried: the reader asks again only
\* after "buffer too small"; an answer that is an error other than that one
\* (and is not the store's "not found") ends the read with a failure at that
\* attempt; a failed store write ends the operation with a failure after that
\* one write, and no operation writes twice.
C24_NoRetry ==
    /\ (pc = "read" /\ attempts >= 1) => lastAns.kind = "BufferTooSmall"
    /\ (pc = "done" /\ op \in Readers
          /\ lastAns.kind \in {"PermissionDenied", "VarUnknownError"} /\ ~NotFoundSignal)
          => (result = Err("Store") /\ Len(offers) = attempts)
    /\ Len(opWrites) <= 1
    /\ (pc \in {"release", "done"} /\ opWrites # <<>> /\ ~opWrites[1].ok)
          => (result = Err("Store") /\ Len(opWrites) = 1)

C24_Witness ==
    /\ Returned("get_selected_entry")
    /\ lastAns.kind = "PermissionDenied"
    /\ attempts = 1
    /\ offers = <<INITIAL_BUFFER>>
    /\ result = Err("Store")

\* C27: in set_oneshot / set_default on the file-backed platform the order is
\* capture the flags, clear the immutable bit if it was set, write the store,
\* restore the captured flags: the write is issued only once the acquisition
\* is complete, from a state where the bit is clear; the restoring request
\* follows the write and precedes the return.
C27_GuardOrdering ==
    (op \in Setters /\ platform = "linux")
       => /\ pc = "acquire" => (~acq.done /\ setReqs = <<>> /\ opWrites = <<>>)
          /\ pc = "write"
                => /\ acq.done /\ opWrites = <<>>
                   /\ guard.held = guard.taken
                   /\ guard.taken => guard.attr = acq.file.iflags
                   /\ setReqs = IF guard.taken
                                THEN <<[attr |-> acq.file.iflags - FS_IMMUTABLE_FL, ok |-> TRUE]>>
                                ELSE <<>>
                   /\ ext = acq.ext => ~Immutable(store[Target(op)])
          /\ pc = "release"
                => (Len(opWrites) = 1 /\ guard.held /\ Len(setReqs) = 1 /\ result # Pending)
          /\ (pc = "done" /\ opWrites # <<>>)
                => /\ ~guard.held
                   /\ Len(setReqs) = (IF guard.taken THEN 2 ELSE 0)
                   /\ guard.taken => LastReq.attr = acq.file.iflags

C27_Witness ==
    /\ Returned("set_default")
    /\ platform = "linux"
    /\ guard.taken
    /\ opWrites # <<>> /\ ~opWrites[1].ok
    /\ setReqs = <<[attr |-> 128, ok |-> TRUE], [attr |-> 144, ok |-> TRUE]>>
    /\ result = Err("Store")

\* C29: the guard changes only the immutable bit: the acquisition asks for the
\* captured flag word without the immutable bit, the release for the whole
\* captured word; with both requests granted and no other process touching
\* the file, its flag word after the operation is the one it had before.
C29_OnlyImmutableBit ==
    (op \in Setters /\ platform = "linux" /\ guard.taken)
       => /\ setReqs[1].attr = acq.file.iflags - FS_IMMUTABLE_FL
          /\ (pc \in {"write", "release"} /\ ext = acq.ext)
                => store[Target(op)].iflags = acq.file.iflags - FS_IMMUTABLE_FL
          /\ pc = "done"
                => /\ LastReq.attr = acq.file.iflags
                   /\ (LastReq.ok /\ ext = acq.ext)
                         => store[Target(op)].iflags = acq.file.iflags

C29_Witness ==
    /\ Returned("set_oneshot")
    /\ result = OkUnit
    /\ acq.file.iflags = 144
    /\ setReqs = <<[attr |-> 128, ok |-> TRUE], [attr |-> 144, ok |-> TRUE]>>
    /\ ext = acq.ext
    /\ store["LoaderEntryOneShot"].iflags = 144

\* C30: remove_oneshot() on the file-backed platform clears the immutable bit
\* with no guard: when the deletion that follows fails with an error other
\* than "not found", remove_oneshot() returns that error, nothing asks for the
\* bit to be restored, and (no other process touching the file) the file is
\* left existing with the bit cleared and its other flags kept.
C30_RemoveLeavesMutable ==
    (Returned("remove_oneshot") /\ platform = "linux"
        /\ LastCall.call = "remove_file" /\ LastCall.res \in {"Err", "Denied"})
       => /\ result = Err("RemoveFile")
          /\ guard = NoGuard /\ setReqs = <<>>
          /\ (LastCall.res = "Err" /\ acq.file.present /\ ext = acq.ext + 1)
                => /\ store["LoaderEntryOneShot"].present
                   /\ ~Immutable(store["LoaderEntryOneShot"])
                   /\ store["LoaderEntryOneShot"]
                         = [acq.file EXCEPT !.iflags = @ - BitAnd(@, FS_IMMUTABLE_FL)]

C30_Witness ==
    /\ Returned("remove_oneshot")
    /\ platform = "linux"
    /\ fsCalls = <<[call |-> "open", res |-> "Ok"], [call |-> "set_immutable", res |-> "Ok"],
                   [call |-> "remove_file", res |-> "Err"]>>
    /\ Immutable(acq.file)
    /\ result = Err("RemoveFile")
    /\ store["LoaderEntryOneShot"].iflags = 128

\* C28 as claimed: entries() has no absent outcome: a LoaderEntries the store
\* reports as not found makes it return the error "Variable LoaderEntries is
\* not set"; it returns an empty list only when the variable exists and its
\* payload is empty or starts with a zero code unit.
C28_AsClaimed ==
    (pc = "done" /\ op = "entries")
       => /\ lastAns.kind = "VarNotFound" => result = Err("NotSet")
          /\ (result.kind = "OkList" /\ result.list = <<>>)
                => /\ store[LOADER_ENTRIES_SHORT].present
                   /\ (StoredEntries = <<>> \/ StoredEntries[1] = 0)

\* C28: entries() has no absent outcome: a LoaderEntries the store reports as
\* not found makes it return the error "Variable LoaderEntries is not set",
\* never Ok(None) or an empty list; it returns an empty list only when the
\* variable exists and no segment before the first empty one is valid UTF-16
\* (a payload that is empty or starts with a zero code unit being the case
\* with no segment at all), and always then.
C28_NotSetIsError ==
    (pc = "done" /\ op = "entries")
       => /\ result # OkNone
          /\ lastAns.kind = "VarNotFound" => result = Err("NotSet")
          /\ (result.kind = "OkList" /\ result.list = <<>>)
                => /\ lastAns.kind = "Ok"
                   /\ store[LOADER_ENTRIES_SHORT].present
                   /\ ValidStarts(StoredEntries) = {}
          /\ (lastAns.kind = "Ok" /\ ValidStarts(StoredEntries) = {})
                => (result.kind = "OkList" /\ result.list = <<>>)
          /\ (lastAns.kind = "Ok" /\ (StoredEntries = <<>> \/ StoredEntries[1] = 0))
                => (result.kind = "OkList" /\ result.list = <<>>)

C28_Witness ==
    /\ Returned("entries")
    /\ ~store["LoaderEntries"].present
    /\ lastAns.kind = "VarNotFound"
    /\ attempts = 1
    /\ result = Err("NotSet")

\* C25: the byte view of a buffer of L sixteen-bit units has length exactly
\* 2L and keeps the order of the elements (bytes 2i and 2i+1, counted from
\* zero, are the two bytes of unit i); bytes stored through the view and seen
\* as units give back the same bytes exactly when their number is even (an
\* odd number of bytes comes back with one zero byte more).
C25_ByteViewLength ==
    /\ pc \in {"view", "viewed"} => Len(view.units) = divide_up(Len(view.stored), 2)
    /\ pc = "viewed"
          => /\ Len(view.bytes) = 2 * Len(view.units)
             /\ \A i \in 1..Len(view.units) :
                   view.units[i] = IF view.endian = "little"
                                   THEN view.bytes[2 * i - 1] + 256 * view.bytes[2 * i]
                                   ELSE 256 * view.bytes[2 * i - 1] + view.bytes[2 * i]
             /\ (view.bytes = view.stored) <=> (Len(view.stored) % 2 = 0)
             /\ Len(view.stored) % 2 = 1 => view.bytes = Append(view.stored, 0)

C25_Witness ==
    /\ pc = "viewed"
    /\ view = [endian |-> "little", stored |-> <<1, 255, 0, 1>>,
               units |-> <<65281, 256>>, bytes |-> <<1, 255, 0, 1>>]

\* the places of `line` where a chunk starts: its first character and every
\* character after a whitespace character
ChunkStarts(line) == {s \in 1..Len(line) : s = 1 \/ is_whitespace(line[s - 1])}

\* the last character of the chunk starting at s
ChunkEnd(line, s) ==
    IF \E j \in s..Len(line) : is_whitespace(line[j])
    THEN (CHOOSE j \in s..Len(line) :
             is_whitespace(line[j]) /\ \A k \in s..(j - 1) : ~is_whitespace(line[k])) - 1
    ELSE Len(line)

\* C26: split_position(line) yields, in order, every chunk of the line
\* delimited by single whitespace characters, each with its byte offset in the
\* line (the bytes of the line from that offset on are the chunk's bytes, a
\* character counting for its UTF-8 length); each further whitespace character
\* in a row yields an empty chunk, and a line ending in whitespace yields no
\* empty chunk at its end.
C26_SplitPosition ==
    pc = "split_done"
       => LET starts == ChunkStarts(arg)
              spaces == {i \in 1..Len(arg) : is_whitespace(arg[i])}
          IN  /\ Len(chunks) = Cardinality(starts)
              /\ Len(chunks) = Cardinality(spaces)
                    + (IF arg = <<>> \/ is_whitespace(arg[Len(arg)]) THEN 0 ELSE 1)
              /\ \A s \in starts :
                    LET k == Cardinality({t \in starts : t < s}) + 1
                        c == chunks[k]
                    IN  /\ c.chunk = SubSeq(arg, s, ChunkEnd(arg, s))
                        /\ c.offset = Len(as_bytes(SubSeq(arg, 1, s - 1)))
                        /\ SubSeq(as_bytes(arg), c.offset + 1,
                                  c.offset + Len(as_bytes(c.chunk))) = as_bytes(c.chunk)
                        /\ is_whitespace(arg[s]) => c.chunk = <<>>

C26_Witness ==
    /\ pc = "split_done"
    /\ arg = <<246, 32, 32, 97, 12288>>
    /\ chunks = <<[offset |-> 0, chunk |-> <<246>>], [offset |-> 3, chunk |-> <<>>],
                  [offset |-> 4, chunk |-> <<97>>]>>

====
